---------------------------- MODULE Spec2Model ----------------------------
(***************************************************************************)
(* Model of tldr.c: a command-line viewer of cheat-sheet pages.  One       *)
(* invocation of the program is one action.  The persistent state is the   *)
(* file system (the downloaded archive, the page cache, the index file);   *)
(* the remaining variables record what the last invocation did (its        *)
(* output, exit status, the streams it opened and left open).              *)
(*                                                                         *)
(* C strings are sequences of one-character strings; a file is the         *)
(* sequence of its characters.                                             *)
(***************************************************************************)
EXTENDS Integers, Sequences, FiniteSets, TLC

VARIABLES
    tmp_file,    \* PAGES_TMP: NoFile, Partial or Downloaded (it is read only by
                 \* the invocation that wrote it, which knows its entries)
    dirs,        \* directories that exist
    cache,       \* regular files below the cache root: path -> content
    index_file,  \* content of the index file, or NoFile
    op,          \* the last invocation: [kind, arg]
    out,         \* what it wrote to stdout
    err,         \* what it wrote to stderr
    status,      \* its termination status: 0, 1 or Crash
    fopened,     \* the fopen() calls it made, in order: [path, mode, ok]
    unclosed,    \* handles it acquired and had not released when it terminated
    headers      \* the archive entries whose header it read, and what it did
                 \* with each: [src, did, dst]

vars == <<tmp_file, dirs, cache, index_file, op, out, err, status, fopened,
          unclosed, headers>>

-----------------------------------------------------------------------------
(* Bounds *)

\* longest bundle (number of archive entries) an update downloads
MaxEntries == 3

\* number of characters by which a long line exceeds the read buffer
Overrun == 3

\* longest of the short pages that are rendered
MaxPageLen == 3

-----------------------------------------------------------------------------
(* C string functions *)

BUF_SIZE == 1024

NULL == 0

NL == "\n"

\* the backquote character (written as a token: the lexer rejects it in a string)
BQ == "bq"

Min(a, b) == IF a < b THEN a ELSE b

\* the suffix of s that starts at index i (a pointer into s)
From(s, i) == SubSeq(s, i, Len(s))

\* index of the first occurrence of c in s, NULL when there is none
strchr(s, c) ==
    LET hits == {i \in 1..Len(s) : s[i] = c}
    IN  IF hits = {} THEN NULL ELSE CHOOSE i \in hits : \A j \in hits : i <= j

\* index of the first occurrence of t in s, NULL when there is none
strstr(s, t) ==
    LET hits == {i \in 1..(Len(s) - Len(t) + 1) : SubSeq(s, i, i + Len(t) - 1) = t}
    IN  IF hits = {} THEN NULL ELSE CHOOSE i \in hits : \A j \in hits : i <= j

\* strcmp(a, b) == 0
strcmp0(a, b) == a = b

\* strncmp(a, b, n) == 0: the strings agree on their first n characters
strncmp0(a, b, n) == SubSeq(a, 1, Min(n, Len(a))) = SubSeq(b, 1, Min(n, Len(b)))

\* one call of fgets(buf, size, stream) on the unread rest of a stream: the
\* number of characters it stores, at most size-1, stopping after a newline
fgets_len(rest, size) ==
    LET lim == Min(Len(rest), size - 1)
        nl  == {i \in 1..lim : rest[i] = NL}
    IN  IF nl = {} THEN lim ELSE CHOOSE i \in nl : \A j \in nl : i <= j

\* the successive results of fgets(buf, size, stream) until it returns NULL
RECURSIVE fgets(_, _)
fgets(rest, size) ==
    IF rest = <<>> THEN <<>>
    ELSE LET n == fgets_len(rest, size)
         IN  <<SubSeq(rest, 1, n)>> \o fgets(From(rest, n + 1), size)

\* concatenation of a sequence of strings
RECURSIVE Cat(_)
Cat(ss) == IF ss = <<>> THEN <<>> ELSE Head(ss) \o Cat(Tail(ss))

-----------------------------------------------------------------------------
(* Configuration (config.h) and environment *)

HOME == <<"/", "h">>

PAGES_PATH == <<"/", "t">>

PAGES_LANG == <<"/", "p">>

HEADING_STYLE == <<"[H]">>

SUBHEADING_STYLE == <<"[S]">>

COMMAND_DESC_STYLE == <<"[D]">>

COMMAND_STYLE == <<"[C]">>

RESET_STYLING == <<"[0]">>

NoFile == "NoFile"

Partial == "Partial"

Downloaded == "Downloaded"

\* termination status of a process killed by a segmentation fault
Crash == 139

\* path of the index file, as open_index builds it
index_path == HOME \o PAGES_PATH \o <<"/", "i", "n", "d", "e", "x">>

\* path of the downloaded archive
PAGES_TMP == <<"/", "z">>

\* directory the index is built from and pages are read from
lang_root == HOME \o PAGES_PATH \o PAGES_LANG

-----------------------------------------------------------------------------
(* Pages and bundles the environment can supply *)

\* the page of the rendering example: a heading, a blank line, a description,
\* an unstyled line, an example description, a command, and a heading that is
\* not terminated by a newline
ExamplePage ==
    <<"#", " ", "T", NL,  NL,  ">", " ", "d", NL,  "p", "l", NL,
      "-", " ", "e", NL,  BQ, "c", BQ, NL,  " ", "#", NL,  "#", "z">>

\* a heading line of n characters, all but the first being c, and its newline
LongLine(n, c) == [i \in 1..(n + 1) |-> IF i = 1 THEN "#" ELSE IF i = n + 1 THEN NL ELSE c]

\* pages whose first line is longer than the read buffer
LongPages ==
    {LongLine(BUF_SIZE - 1 + Overrun, c) \o <<">", "k", NL>> : c \in {"x", ">"}}

\* the characters of the short pages
PageChars == {"#", ">", "-", BQ, "x", NL}

\* the pages of at most n characters
RECURSIVE PagesUpTo(_)
PagesUpTo(n) ==
    IF n = 0 THEN {<<>>}
    ELSE LET shorter == PagesUpTo(n - 1)
         IN  shorter \cup {Append(t, c) : t \in {x \in shorter : Len(x) = n - 1},
                                          c \in PageChars}

Pages == PagesUpTo(MaxPageLen) \cup LongPages \cup {ExamplePage}

MD == <<".", "m", "d">>

TOP == <<"t", "l", "d", "r", "-", "m", "a", "s", "t", "e", "r">>

\* an archive entry: a path and, for a regular file, its content
File(path, body) == [path |-> path, dir |-> FALSE, body |-> body]

Dir(path) == [path |-> path, dir |-> TRUE, body |-> <<>>]

RootEntry == Dir(TOP \o PAGES_LANG \o <<"/">>)

LinuxF == File(TOP \o PAGES_LANG \o <<"/", "l", "/", "f">> \o MD, ExamplePage)

CommonF == File(TOP \o PAGES_LANG \o <<"/", "c", "/", "f">> \o MD, <<">", "k", NL, "-", NL>>)

OtherF == File(TOP \o <<"/", "q", "/", "l", "/", "f">> \o MD, <<"#", "q", NL>>)

Entries == {RootEntry, LinuxF, CommonF, OtherF}

\* sequences of distinct entries, at most n long
RECURSIVE BundlesUpTo(_)
BundlesUpTo(n) ==
    IF n = 0 THEN {<<>>}
    ELSE LET shorter == BundlesUpTo(n - 1)
         IN  shorter \cup
             {Append(b, e) : b \in {x \in shorter : Len(x) = n - 1},
                             e \in Entries}

Distinct(b) == \A i, j \in 1..Len(b) : b[i] = b[j] => i = j

Bundles == {b \in BundlesUpTo(MaxEntries) : Distinct(b)}

\* queries given on the command line
Queries ==
    { <<"f">>, <<"g">>, <<"l", "/", "f">>, <<"c", "/", "f">>, <<"l", "/", "g">> }

-----------------------------------------------------------------------------
(* The file system *)

\* the directories on the way to path p
Parents(p) == {SubSeq(p, 1, i - 1) : i \in {j \in 2..Len(p) : p[j] = "/"}}

\* the directory that holds p
Parent(p) ==
    LET cuts == {j \in 2..Len(p) : p[j] = "/"}
    IN  IF cuts = {} THEN <<"/">>
        ELSE SubSeq(p, 1, (CHOOSE i \in cuts : \A j \in cuts : j <= i) - 1)

\* f with x mapped to v
Put(f, x, v) == [y \in DOMAIN f \cup {x} |-> IF y = x THEN v ELSE f[y]]

\* handles of the C library's stdio, which exit() flushes and closes
Streams == {"archive", "index", "page"}

\* exit(), and the return from main: the handles still open once the
\* process has terminated
exit(open) == open \ Streams

\* error_terminate: the line it prints to stderr
error_terminate(msg, details) == <<msg, "; details: ", details, ".", NL>>

\* open_index: fopen(index_path, mode); "w" creates or truncates the file and
\* needs its directory, "r" needs the file.  On failure it terminates.
open_index(mode, ds, idx) ==
    LET ok == IF mode = "w" THEN Parent(index_path) \in ds ELSE idx # NoFile
    IN  [ok      |-> ok,
         file    |-> IF ok /\ mode = "w" THEN <<>> ELSE idx,
         fopened |-> <<[path |-> index_path, mode |-> mode, ok |-> ok]>>,
         err     |-> IF ok THEN <<>>
                     ELSE error_terminate(
                            "Failer to open index, probably you should run 'tldr -u'",
                            mode)]

\* the lines the loop  while (fgets(buf, BUF_SIZE, stream))  sees on a stream
\* opened with the given mode: a stream opened for writing cannot be read,
\* and fgets returns NULL on it at once
read_lines(mode, content) == IF mode = "r" THEN fgets(content, BUF_SIZE) ELSE <<>>

-----------------------------------------------------------------------------
(* Page Locator *)

\* page_matches comparing the whole line whatever the query
page_matches_whole_line(page_name, buf) ==
    strcmp0(page_name \o MD \o <<NL>>, buf)

\* the test find_page applies to one line of the index
page_matches(page_name, buf) ==
    LET page_filename == page_name \o MD \o <<NL>>
    IN  IF strchr(page_name, "/") # NULL
        THEN strcmp0(page_filename, buf)
        ELSE strcmp0(page_filename, From(buf, strchr(buf, "/") + 1))

\* the NULL that find_page returns, as a value that is no line
NO_PAGE == <<"NULL">>

\* find_page going on to the last line that matches
find_page_last(page_name, idx) ==
    LET lines == read_lines("r", idx)
        hits  == {i \in 1..Len(lines) : page_matches(page_name, lines[i])}
    IN  IF hits = {} THEN NO_PAGE
        ELSE LET buf == lines[CHOOSE i \in hits : \A j \in hits : j <= i]
             IN  SubSeq(buf, 1, strchr(buf, NL) - 1)

\* find_page on an index that open_index("r") opened: the first line that
\* matches, without its newline, or NULL
find_page(page_name, idx) ==
    LET lines == read_lines("r", idx)
        hits  == {i \in 1..Len(lines) : page_matches(page_name, lines[i])}
    IN  IF hits = {} THEN NO_PAGE
        ELSE LET buf == lines[CHOOSE i \in hits : \A j \in hits : i <= j]
             IN  SubSeq(buf, 1, strchr(buf, NL) - 1)

-----------------------------------------------------------------------------
(* Page Renderer *)

\* what the body of display_page's loop prints for one fgets result
print_line(buf) ==
    IF strcmp0(buf, <<NL>>) THEN <<>>
    ELSE (IF buf[1] = "#" THEN HEADING_STYLE \o buf \o RESET_STYLING ELSE <<>>)
      \o (IF buf[1] = ">" THEN SUBHEADING_STYLE \o buf \o RESET_STYLING ELSE <<>>)
      \o (IF buf[1] = "-" THEN COMMAND_DESC_STYLE \o buf \o RESET_STYLING ELSE <<>>)
      \o (IF buf[1] = BQ THEN COMMAND_STYLE \o buf \o RESET_STYLING ELSE <<>>)

\* what display_page's loop prints for a page file
print_page(text) ==
    LET bufs == read_lines("r", text)
    IN  Cat([i \in 1..Len(bufs) |-> print_line(bufs[i])])

\* the path display_page opens for a line of the index
page_file(page_path) == HOME \o PAGES_PATH \o PAGES_LANG \o <<"/">> \o page_path

\* page_not_found leaving with exit(0)
page_not_found_exit_0(fopens) ==
    [out |-> <<"The page has not been found.", NL>>, err |-> <<>>,
     status |-> 0, fopened |-> fopens, unclosed |-> exit({})]

\* display_page when find_page returned NULL: puts() the message, exit(1)
page_not_found(fopens) ==
    [out |-> <<"The page has not been found.", NL>>, err |-> <<>>,
     status |-> 1, fopened |-> fopens, unclosed |-> exit({})]

\* display_page.  readable: the environment lets the page file be opened;
\* ub: what the build does with fgets(buf, BUF_SIZE, NULL), which is undefined:
\* "crash" (the usual segmentation fault) or "eof" (the read fails and the
\* program goes on to return from main).
display_page(page_name, readable, ub) ==
    LET oi == open_index("r", dirs, index_file)
        page_path == find_page(page_name, index_file)
        buf  == page_file(page_path)
        ok   == buf \in DOMAIN cache /\ readable
        try  == <<[path |-> buf, mode |-> "r", ok |-> ok]>>
    IN  IF ~oi.ok THEN
            [out |-> <<>>, err |-> oi.err, status |-> 1,
             fopened |-> oi.fopened, unclosed |-> exit({})]
        ELSE IF page_path = NO_PAGE THEN page_not_found(oi.fopened)
        ELSE IF ok THEN
            [out |-> print_page(cache[buf]), err |-> <<>>, status |-> 0,
             fopened |-> oi.fopened \o try, unclosed |-> exit({"index"})]
        ELSE IF ub = "crash" THEN
            [out |-> <<>>, err |-> <<>>, status |-> Crash,
             fopened |-> oi.fopened \o try, unclosed |-> {"index"}]
        ELSE
            [out |-> <<>>, err |-> <<>>, status |-> 0,
             fopened |-> oi.fopened \o try, unclosed |-> exit({"index"})]

\* prog <page_name>
Display(page_name, readable, ub) ==
    LET r == display_page(page_name, readable, ub)
    IN  /\ op' = [kind |-> "display", arg |-> page_name]
        /\ out' = r.out
        /\ err' = r.err
        /\ status' = r.status
        /\ fopened' = r.fopened
        /\ unclosed' = r.unclosed
        /\ headers' = <<>>
        /\ UNCHANGED <<tmp_file, dirs, cache, index_file>>

-----------------------------------------------------------------------------
(* Listing *)

\* what list_pages prints for one line of the index
list_line(buf) == From(buf, strchr(From(buf, 2), "/") + 1 + 1)

\* the mode list_pages opens the index with
list_mode == "w"

\* list_pages
list_pages ==
    LET oi    == open_index(list_mode, dirs, index_file)
        lines == read_lines(list_mode, oi.file)
    IN  IF ~oi.ok THEN
            [out |-> <<>>, err |-> oi.err, status |-> 1, file |-> oi.file,
             fopened |-> oi.fopened, unclosed |-> exit({})]
        ELSE
            [out |-> Cat([i \in 1..Len(lines) |-> list_line(lines[i])]),
             err |-> <<>>, status |-> 0, file |-> oi.file,
             fopened |-> oi.fopened, unclosed |-> exit({})]

\* prog -l
List ==
    LET r == list_pages
    IN  /\ op' = [kind |-> "list", arg |-> <<>>]
        /\ out' = r.out
        /\ err' = r.err
        /\ status' = r.status
        /\ index_file' = r.file
        /\ fopened' = r.fopened
        /\ unclosed' = r.unclosed
        /\ headers' = <<>>
        /\ UNCHANGED <<tmp_file, dirs, cache>>

\* tldr_usage: the text it prints
tldr_usage == <<"USAGE: tldr [options] <[platform/]command>", NL>>

\* prog -h
Help ==
    /\ op' = [kind |-> "help", arg |-> <<>>]
    /\ out' = tldr_usage
    /\ err' = <<>>
    /\ status' = 0
    /\ fopened' = <<>>
    /\ unclosed' = exit({})
    /\ headers' = <<>>
    /\ UNCHANGED <<tmp_file, dirs, cache, index_file>>

\* prog, or prog with more than one argument
Usage ==
    /\ op' = [kind |-> "usage", arg |-> <<>>]
    /\ out' = tldr_usage
    /\ err' = <<>>
    /\ status' = 1
    /\ fopened' = <<>>
    /\ unclosed' = exit({})
    /\ headers' = <<>>
    /\ UNCHANGED <<tmp_file, dirs, cache, index_file>>

-----------------------------------------------------------------------------
(* Update: Fetcher, Extractor, Index Builder *)

\* what the environment can make fail in an update; k: the call of
\* archive_read_extract that fails
Faults ==
    {[at |-> a, k |-> 0] :
        a \in {"none", "tmp_create", "curl", "archive_fopen", "read_new", "read_open"}}
    \cup {[at |-> "extract", k |-> k] : k \in 1..MaxEntries}

\* fetch_pages: downloads the bundle to PAGES_TMP
fetch_pages(fault, tmp) ==
    IF fault.at = "tmp_create" THEN
        [ok |-> FALSE, tmp |-> tmp,
         fopened |-> <<[path |-> PAGES_TMP, mode |-> "w", ok |-> FALSE]>>,
         err |-> error_terminate("Failed to create a temporary file", "none"),
         unclosed |-> exit({})]
    ELSE IF fault.at = "curl" THEN
        [ok |-> FALSE, tmp |-> Partial,
         fopened |-> <<[path |-> PAGES_TMP, mode |-> "w", ok |-> TRUE]>>,
         err |-> error_terminate("Failed to fetch pages", "err_curl"),
         unclosed |-> exit({})]
    ELSE
        [ok |-> TRUE, tmp |-> Downloaded,
         fopened |-> <<[path |-> PAGES_TMP, mode |-> "w", ok |-> TRUE]>>,
         err |-> <<>>, unclosed |-> {}]

\* the place inside the archive to extract pages from
archive_path == TOP \o PAGES_LANG \o <<"/">>

\* first loop of extract_pages: the number of headers it reads, up to the
\* entry named archive_path or, when there is none, to the end of the archive
root_at(b) ==
    LET hits == {i \in 1..Len(b) : strcmp0(b[i].path, archive_path)}
    IN  IF hits = {} THEN Len(b) ELSE CHOOSE i \in hits : \A j \in hits : i <= j

\* the entries left unread after the first loop
after_root(b) == From(b, root_at(b) + 1)

\* second loop of extract_pages: the entries it passes to
\* archive_read_extract, up to the first whose path lacks the prefix
RECURSIVE in_subtree(_)
in_subtree(rest) ==
    IF rest = <<>> THEN <<>>
    ELSE IF ~strncmp0(Head(rest).path, archive_path, Len(archive_path)) THEN <<>>
    ELSE <<Head(rest)>> \o in_subtree(Tail(rest))

\* page_path dropping the subtree name as well
page_path_less_subtree(pathname) ==
    LET top == strchr(pathname, "/")
    IN  HOME \o PAGES_PATH \o From(pathname, top + strchr(From(pathname, top + 1), "/"))

\* the place to put an extracted entry to
page_path(pathname) ==
    HOME \o PAGES_PATH \o From(pathname, strchr(pathname, "/"))

\* archive_read_extract of entry e under the path dst, on the file system fs
archive_read_extract(e, dst, fs) ==
    [dirs  |-> fs.dirs \cup Parents(dst),
     cache |-> IF e.dir THEN fs.cache ELSE Put(fs.cache, dst, e.body)]

\* the file system after the first n entries of es are extracted
RECURSIVE extract_all(_, _, _)
extract_all(es, n, fs) ==
    IF n = 0 THEN fs
    ELSE archive_read_extract(es[n], page_path(es[n].path), extract_all(es, n - 1, fs))

\* extract_pages, PAGES_TMP holding the bundle b
extract_pages(b, fault, fs) ==
    LET open == <<[path |-> PAGES_TMP, mode |-> "r", ok |-> fault.at # "archive_fopen"]>>
        es   == in_subtree(after_root(b))
        bad  == fault.at = "extract" /\ fault.k <= Len(es)
        n    == IF bad THEN fault.k - 1 ELSE Len(es)
        rest == after_root(b)
        log  == [i \in 1..root_at(b) |->
                    [src |-> b[i].path, dst |-> <<>>,
                     did |-> IF strcmp0(b[i].path, archive_path) THEN "root" ELSE "skip"]]
                \o [i \in 1..n |->
                    [src |-> es[i].path, dst |-> page_path(es[i].path), did |-> "extract"]]
                \o (IF bad
                    THEN <<[src |-> es[n + 1].path, dst |-> page_path(es[n + 1].path),
                            did |-> "fail"]>>
                    ELSE IF Len(rest) > Len(es)
                    THEN <<[src |-> rest[Len(es) + 1].path, dst |-> <<>>, did |-> "stop"]>>
                    ELSE <<>>)
    IN  IF fault.at = "archive_fopen" THEN
            [ok |-> FALSE, fs |-> fs, fopened |-> open, headers |-> <<>>,
             err |-> error_terminate("Failed to open the archive", "none"),
             unclosed |-> exit({})]
        ELSE IF fault.at = "read_new" THEN
            [ok |-> FALSE, fs |-> fs, fopened |-> open, headers |-> <<>>,
             err |-> error_terminate("Failed to archive_read_new()", "none"),
             unclosed |-> exit({"archive"})]
        ELSE IF fault.at = "read_open" THEN
            [ok |-> FALSE, fs |-> fs, fopened |-> open, headers |-> <<>>,
             err |-> error_terminate("Failed to archive_read_open_FILE()",
                                     "archive_error_string"),
             unclosed |-> exit({"archive", "reader"})]
        ELSE IF bad THEN
            [ok |-> FALSE, fs |-> extract_all(es, n, fs), fopened |-> open,
             headers |-> log,
             err |-> error_terminate("Failed to archive_read_extract()",
                                     "archive_error_string"),
             unclosed |-> exit({"archive", "reader"})]
        ELSE
            [ok |-> TRUE, fs |-> extract_all(es, n, fs), fopened |-> open,
             headers |-> log, err |-> <<>>, unclosed |-> {}]

\* the orders in which ftw can visit the tree below a node: the node, then
\* its entries one after the other in the order the directory lists them
RECURSIVE Walks(_, _), KidsWalks(_, _)
Walks(node, fs) ==
    IF node \in DOMAIN fs.cache THEN {<<[path |-> node, typeflag |-> "FTW_F"]>>}
    ELSE LET kids == {n \in fs.dirs \cup DOMAIN fs.cache : Parent(n) = node}
         IN  {<<[path |-> node, typeflag |-> "FTW_D"]>> \o w : w \in KidsWalks(kids, fs)}

KidsWalks(kids, fs) ==
    IF kids = {} THEN {<<>>}
    ELSE UNION {{w \o rest : w \in Walks(k, fs), rest \in KidsWalks(kids \ {k}, fs)}
                : k \in kids}

\* ftw(dir, ftw_callback, 10): the sequences of visits it can make; it fails
\* without a visit when dir does not exist
ftw(dir, fs) == IF dir \in fs.dirs THEN Walks(dir, fs) ELSE {<<>>}

\* ftw_callback: what it writes to the index for one visit
ftw_callback(path, typeflag) ==
    IF typeflag = "FTW_F"
    THEN LET lang == strstr(path, PAGES_LANG)
             sep  == lang + strchr(From(path, lang + 1), "/")
         IN  From(path, sep + 1) \o <<NL>>
    ELSE <<>>

\* index_pages, ftw visiting the tree in the order walk
index_pages(walk, fs, idx) ==
    LET oi == open_index("w", fs.dirs, idx)
    IN  IF ~oi.ok THEN
            [ok |-> FALSE, file |-> oi.file, fopened |-> oi.fopened, err |-> oi.err,
             unclosed |-> exit({})]
        ELSE
            [ok |-> TRUE,
             file |-> oi.file
                      \o Cat([i \in 1..Len(walk) |->
                                ftw_callback(walk[i].path, walk[i].typeflag)]),
             fopened |-> oi.fopened, err |-> <<>>, unclosed |-> {}]

\* prog -u
Update(b, fault) ==
    LET fs0 == [dirs |-> dirs, cache |-> cache]
        f   == fetch_pages(fault, tmp_file)
        x   == extract_pages(b, fault, fs0)
    IN  /\ op' = [kind |-> "update", arg |-> <<>>]
        /\ tmp_file' = f.tmp
        /\ IF ~f.ok THEN
              /\ out' = <<"Fetching pages...", NL>>
              /\ err' = f.err
              /\ status' = 1
              /\ fopened' = f.fopened
              /\ unclosed' = f.unclosed
              /\ headers' = <<>>
              /\ UNCHANGED <<dirs, cache, index_file>>
           ELSE IF ~x.ok THEN
              /\ out' = <<"Fetching pages...", NL, "Extracting pages...", NL>>
              /\ err' = x.err
              /\ status' = 1
              /\ fopened' = f.fopened \o x.fopened
              /\ unclosed' = x.unclosed
              /\ headers' = x.headers
              /\ dirs' = x.fs.dirs
              /\ cache' = x.fs.cache
              /\ UNCHANGED index_file
           ELSE \E walk \in ftw(lang_root, x.fs) :
              LET i == index_pages(walk, x.fs, index_file)
              IN  /\ out' = <<"Fetching pages...", NL, "Extracting pages...", NL,
                              "Indexing pages...", NL>>
                  /\ err' = i.err
                  /\ status' = IF i.ok THEN 0 ELSE 1
                  /\ fopened' = f.fopened \o x.fopened \o i.fopened
                  /\ unclosed' = exit(i.unclosed)
                  /\ headers' = x.headers
                  /\ dirs' = x.fs.dirs
                  /\ cache' = x.fs.cache
                  /\ index_file' = i.file

-----------------------------------------------------------------------------
(* The program, run again and again on the same file system *)

Init ==
    /\ tmp_file = NoFile
    /\ dirs \in {{HOME}, {HOME, HOME \o PAGES_PATH}}
    /\ cache = <<>>
    /\ index_file = NoFile
    /\ op = [kind |-> "none", arg |-> <<>>]
    /\ out = <<>>
    /\ err = <<>>
    /\ status = 0
    /\ fopened = <<>>
    /\ unclosed = {}
    /\ headers = <<>>

\* the updates that differ: a fault that strikes before the archive is read
\* makes its entries irrelevant, and the k-th extraction can fail only when
\* there are k entries to extract
UpdateInputs ==
    {in \in Bundles \X Faults :
        /\ in[2].at \notin {"none", "extract"} => in[1] = <<>>
        /\ in[2].at = "extract" => in[2].k <= Len(in_subtree(after_root(in[1])))}

Next ==
    \/ Help
    \/ Usage
    \/ \E in \in UpdateInputs : Update(in[1], in[2])
    \/ List
    \/ \E page_name \in Queries, readable \in BOOLEAN, ub \in {"crash", "eof"} :
          Display(page_name, readable, ub)

Spec == Init /\ [][Next]_vars


-----------------------------------------------------------------------------
(* Displaying one cached page, whatever its text *)

\* the index line of the page that is rendered
OnlyLine == <<"l", "/", "f">> \o MD

\* the state an update leaves when the language subtree of the bundle holds
\* the one page l/f.md
InitRender ==
    /\ tmp_file = Downloaded
    /\ dirs = Parents(page_file(OnlyLine))
    /\ \E text \in Pages : cache = Put(<<>>, page_file(OnlyLine), text)
    /\ index_file = OnlyLine \o <<NL>>
    /\ op = [kind |-> "none", arg |-> <<>>]
    /\ out = <<>>
    /\ err = <<>>
    /\ status = 0
    /\ fopened = <<>>
    /\ unclosed = {}
    /\ headers = <<>>

NextRender ==
    \E page_name \in Queries, readable \in BOOLEAN, ub \in {"crash", "eof"} :
        Display(page_name, readable, ub)

SpecRender == InitRender /\ [][NextRender]_vars


-----------------------------------------------------------------------------
(* What the specification says, in its own terms *)

\* a text cut after each newline
RECURSIVE SplitLines(_)
SplitLines(text) ==
    IF text = <<>> THEN <<>>
    ELSE LET nl == strchr(text, NL)
             n  == IF nl = NULL THEN Len(text) ELSE nl
         IN  <<SubSeq(text, 1, n)>> \o SplitLines(From(text, n + 1))

\* a line without its terminator
Chomp(line) ==
    IF line # <<>> /\ line[Len(line)] = NL THEN SubSeq(line, 1, Len(line) - 1) ELSE line

\* the lines of the index file, without their terminators
IndexLines(idx) ==
    IF idx = NoFile THEN <<>>
    ELSE LET ls == SplitLines(idx) IN [i \in 1..Len(ls) |-> Chomp(ls[i])]

\* the portion of an index line after its first '/'
AfterSlash(line) == From(line, strchr(line, "/") + 1)

\* a line of the form platform/name.md
IsPageLine(line) ==
    /\ Cardinality({i \in 1..Len(line) : line[i] = "/"}) = 1
    /\ Len(line) > Len(MD)
    /\ From(line, Len(line) - Len(MD) + 1) = MD

\* platform/name of the line platform/name.md
PlatformName(line) == SubSeq(line, 1, Len(line) - Len(MD))

\* the number of lines whose file name is name.md
Occurrences(name, ls) ==
    Cardinality({i \in 1..Len(ls) : AfterSlash(ls[i]) = name \o MD})

\* the line the Page Locator is specified to return for a query, NO_PAGE
\* when no line matches
Located(query, ls) ==
    LET hits == IF strchr(query, "/") = NULL
                THEN {i \in 1..Len(ls) : AfterSlash(ls[i]) = query \o MD}
                ELSE {i \in 1..Len(ls) : ls[i] = query \o MD}
    IN  IF hits = {} THEN NO_PAGE
        ELSE ls[CHOOSE i \in hits : \A j \in hits : i <= j]

\* the last invocation displayed a page and opened the file of this index line
Showed(line) ==
    /\ op.kind = "display"
    /\ Len(fopened) = 2
    /\ fopened[2].path = page_file(line)

\* every index line names its platform and ends with a newline, and fits the
\* buffer: find_page and list_pages never step outside a line
IndexWellFormed ==
    index_file # NoFile =>
        \A buf \in {read_lines("r", index_file)[i] : i \in 1..Len(read_lines("r", index_file))} :
            /\ strchr(buf, "/") # NULL
            /\ buf[Len(buf)] = NL
            /\ Len(buf) < BUF_SIZE - 1

-----------------------------------------------------------------------------
(* C1: prog -l prints every line of the index, in order, each without its
   platform prefix up to and including the first '/', and exits with 0.
   The code opens the index for writing: the index is emptied and nothing is
   printed. *)
C1_ListPrintsIndex ==
    [][(op'.kind = "list" /\ index_file # NoFile)
        => /\ status' = 0
           /\ out' = Cat([i \in 1..Len(IndexLines(index_file)) |->
                            AfterSlash(IndexLines(index_file)[i]) \o <<NL>>])]_vars

(* C2: round-trip lookup.  For every line platform/name.md of the index the
   Index Builder wrote, find("platform/name") returns that line, and so does
   find("name") when name occurs under one platform only; a display of
   either query opens the file of that line. *)
C2_RoundTripLookup ==
    LET ls == IndexLines(index_file)
    IN  \A i \in 1..Len(ls) :
            IsPageLine(ls[i]) =>
                LET full == PlatformName(ls[i])
                    name == AfterSlash(full)
                IN  /\ find_page(full, index_file) = ls[i]
                    /\ Occurrences(name, ls) = 1 => find_page(name, index_file) = ls[i]
                    /\ (op.kind = "display" /\ op.arg = full) => Showed(ls[i])
                    /\ (op.kind = "display" /\ op.arg = name /\ Occurrences(name, ls) = 1)
                          => Showed(ls[i])

\* the page f, indexed under one platform, was found by its name alone
C2_Witness ==
    /\ IndexLines(index_file) = << <<"c", "/", "f">> \o MD >>
    /\ op = [kind |-> "display", arg |-> <<"f">>]
    /\ Showed(<<"c", "/", "f">> \o MD)
    /\ status = 0

(* C3: first-match policy.  A query without '/' finds the earliest index line
   whose portion after the first '/' is <query>.md, a query with '/' the line
   that is <query>.md as a whole; with the lines l/f.md, c/f.md in that
   order find("f") returns l/f.md. *)
C3_FirstMatch ==
    LET ls == IndexLines(index_file)
    IN  /\ \A q \in Queries :
            Located(q, ls) # NO_PAGE =>
                /\ find_page(q, index_file) = Located(q, ls)
                /\ (op.kind = "display" /\ op.arg = q) => Showed(Located(q, ls))
        /\ ls = << <<"l", "/", "f">> \o MD, <<"c", "/", "f">> \o MD >>
              => find_page(<<"f">>, index_file) = <<"l", "/", "f">> \o MD

\* f is indexed under l and then under c, and a display of f opened l/f.md
C3_Witness ==
    /\ IndexLines(index_file) = << <<"l", "/", "f">> \o MD, <<"c", "/", "f">> \o MD >>
    /\ op = [kind |-> "display", arg |-> <<"f">>]
    /\ Showed(<<"l", "/", "f">> \o MD)

(* C4: not-found path.  When no line of the index matches the query, find
   returns "not found" and the display prints the not-found message and exits
   with a non-zero status without trying to open a page file. *)
C4_NotFound ==
    (/\ op.kind = "display"
     /\ index_file # NoFile
     /\ Located(op.arg, IndexLines(index_file)) = NO_PAGE)
    => /\ find_page(op.arg, index_file) = NO_PAGE
       /\ out = <<"The page has not been found.", NL>>
       /\ status # 0
       /\ \A i \in 1..Len(fopened) : fopened[i].path = index_path

\* a display of g, which a non-empty index does not hold
C4_Witness ==
    /\ op = [kind |-> "display", arg |-> <<"g">>]
    /\ Len(IndexLines(index_file)) > 0
    /\ out = <<"The page has not been found.", NL>>
    /\ status = 1

\* the stages of an update that started, from what it printed
StagesRun == Cardinality({i \in 1..Len(out) : out[i] = NL})

(* C5: an update runs Fetcher, Extractor, Index Builder in that order, a
   stage only when the earlier ones succeeded, and exits with 0 exactly when
   all three succeeded, with 1 when a stage failed; a failed walk of the
   cache is such a failure.  The code ignores the result of ftw. *)
C5_UpdateStatus ==
    op.kind = "update" =>
        /\ out \in {<<"Fetching pages...", NL>>,
                    <<"Fetching pages...", NL, "Extracting pages...", NL>>,
                    <<"Fetching pages...", NL, "Extracting pages...", NL,
                      "Indexing pages...", NL>>}
        /\ status \in {0, 1}
        /\ status = 0 <=> (StagesRun = 3 /\ err = <<>> /\ lang_root \in dirs)

\* the archive path without its first n segments
RECURSIVE StripSegments(_, _)
StripSegments(path, n) ==
    IF n = 0 THEN <<"/">> \o path
    ELSE StripSegments(From(path, strchr(path, "/") + 1), n - 1)

\* the root the Extractor writes below
destination_root == HOME \o PAGES_PATH

\* every entry written lies in the selected subtree and is written at the
\* destination root followed by its path without the first n segments
ScopedAndStripped(n) ==
    \A i \in 1..Len(headers) :
        /\ headers[i].did = "extract" =>
              /\ SubSeq(headers[i].src, 1, Len(archive_path)) = archive_path
              /\ headers[i].dst = destination_root \o StripSegments(headers[i].src, n)
              /\ headers[i].dst \in DOMAIN cache \cup {d \o <<"/">> : d \in dirs}
        /\ SubSeq(headers[i].src, 1, Len(archive_path)) # archive_path
              => headers[i].did \in {"skip", "stop"}

(* C6 as stated: extraction writes only entries below root/lang-a/, each at
   the destination root followed by its path without its first two
   segments.  The code drops one segment only. *)
C6_TwoSegmentsRemoved == ScopedAndStripped(2)

(* C6 as amended: extraction writes only entries below root/lang-a/, each at
   the destination root followed by the entry's path from its first '/' on,
   that is without its first segment only: the subtree name is kept. *)
C6_OneSegmentRemoved == ScopedAndStripped(1)

\* an update extracted a page of the subtree from a bundle that also held an
\* entry of another subtree
C6_Witness ==
    /\ op.kind = "update"
    /\ \E i \in 1..Len(headers) :
          headers[i].did = "extract" /\ headers[i].src = LinuxF.path
    /\ \E i \in 1..Len(headers) : headers[i].src = OtherF.path

\* the style the specification gives a line, by its first character
StyleOf(c) ==
    IF c = "#" THEN HEADING_STYLE
    ELSE IF c = ">" THEN SUBHEADING_STYLE
    ELSE IF c = "-" THEN COMMAND_DESC_STYLE
    ELSE COMMAND_STYLE

\* the rendering of a page as specified: its styled lines, in order
Rendered(text) ==
    LET ls == SplitLines(text)
    IN  Cat([i \in 1..Len(ls) |->
               IF ls[i][1] \in {"#", ">", "-", BQ}
               THEN StyleOf(ls[i][1]) \o ls[i] \o RESET_STYLING
               ELSE <<>>])

\* the last invocation displayed a page it could open
Displayed ==
    /\ op.kind = "display"
    /\ Len(fopened) = 2
    /\ fopened[2].ok

(* C7: render filtering.  For any page the output is exactly its lines that
   start with '#', '>', '-' or '`', in order, each once, in its style and
   followed by the reset sequence.  The code reads a line in pieces of
   BUF_SIZE-1 characters and treats each piece as a line. *)
C7_RenderFiltering ==
    Displayed => out = Rendered(cache[fopened[2].path])

\* the same, for the pages whose lines fit the buffer
C7_RenderFilteringOfShortLines ==
    (/\ Displayed
     /\ \A l \in {SplitLines(cache[fopened[2].path])[i] :
                    i \in 1..Len(SplitLines(cache[fopened[2].path]))} :
            Len(l) < BUF_SIZE)
    => out = Rendered(cache[fopened[2].path])

(* C8: when the page file of the line found cannot be opened, the display
   prints a diagnostic to the error stream and terminates with a non-zero
   status, without reading from the file.  The code does not test the result
   of fopen. *)
C8_OpenFailureIsFatal ==
    (/\ op.kind = "display"
     /\ Len(fopened) = 2
     /\ ~fopened[2].ok)
    => (err # <<>> /\ status = 1)

(* C9: on every exit path, every handle the process opened has been closed
   when it terminates.  error_terminate leaves the archive reader open. *)
C9_AllHandlesClosed == unclosed = {}

(* C10: the content of the index is changed by the Index Builder only: -h,
   -l and display leave it as it is.  (Fails through the code bug of C1.) *)
C10_IndexOnlyChangedByUpdate ==
    [][(op'.kind \in {"help", "list", "display"} /\ index_file # NoFile)
        => index_file' = index_file]_vars

=============================================================================
